---- MODULE Spec2Model ----
(***************************************************************************)
(* Model of github.com/psampaz/service: Service.Serve (service.go).        *)
(*                                                                         *)
(* Serve makes two hand-off channels of capacity 1, starts the work        *)
(* function on its own goroutine and selects on errCh, resCh and           *)
(* ctx.Done().  The model runs NumCalls Serve calls on one Service, in any *)
(* interleaving, each with the context its caller passes.  Channels live   *)
(* in a heap (chans) and a call holds channel references, as the Go locals *)
(* do.  The req parameter is not modelled: Serve never reads it.           *)
(*                                                                         *)
(* TestService.Serve (the test double, example/test/main.go lines 50-111)  *)
(* has a specification of its own, TestSpec: NumTestCalls successive calls *)
(* on one TestService value t, whose delay goroutines outlive their calls. *)
(* The calls do not overlap, so the request and the ctx of the latest call *)
(* are all that is kept of the arguments.                                  *)
(***************************************************************************)
EXTENDS Integers, Sequences, FiniteSets, TLC

\* ---- bounds ----
NumCalls == 2
NumTestCalls == 2
MaxDelay == 1

Calls == 1..NumCalls
TCalls == 1..NumTestCalls

\* ---- values ----
Nil == "nil"
ZeroResponse == ""
Responses == {ZeroResponse, "success"}
WorkErrors == {"error"}
Canceled == "context canceled"
DeadlineExceeded == "context deadline exceeded"
CtxErrors == {Canceled, DeadlineExceeded}
NoRet == [resp |-> "-", err |-> "-"]
NoChan == <<>>
ZeroRequest == ""
Requests == {"request data", "other request"}

\* what s.work() may return: any Response together with nil or an error
WorkOutcomes == [resp : Responses, err : {Nil} \cup WorkErrors]

VARIABLES
    callerPc,   \* per call: "idle", "select", "ret_err", "ret_res", "ret_ctx"
    workerPc,   \* per call: "none", "work", "send_err", "send_res", "done"
    resCh,      \* per call: reference to the channel made at line 40
    errCh,      \* per call: reference to the channel made at line 41
    chans,      \* heap: channel reference -> buffer of the channel
    ctxErr,     \* per call: Err() of the ctx passed, Nil while Done() is open
    workRet,    \* per call: (resp, err) as returned by s.work()
    ret,        \* per call: (Response, error) returned by Serve
    launches,   \* per call: number of times s.work() was started
    t,          \* the TestService value: Res, DelayReponse, Err, Recorder
    tPc,        \* per test call: "idle", "select", "ret_ctx", "ret_done"
    req,        \* the Request passed to the latest test call
    ctxIn,      \* Err() of the ctx of the latest test call when it was made
    tCtxErr,    \* Err() of the ctx of the latest test call
    sleeperPc,  \* per test call: "none", "sleep", "send", "exit"
    remaining,  \* per test call: what is left of time.Sleep(t.DelayReponse)
    doneCh,     \* per test call: buffer of the done channel of line 93
    tRet        \* per test call: (Response, error) returned

svars == <<callerPc, workerPc, resCh, errCh, chans, ctxErr, workRet, ret, launches>>
tvars == <<t, tPc, req, ctxIn, tCtxErr, sleeperPc, remaining, doneCh, tRet>>
vars == <<svars, tvars>>

\* make(chan T, 1): capacity of both hand-off channels
ChanCapUnbuffered == 0
ChanCap == 1

\* make returns a reference to a new channel: the one made by call c for
\* its local variable v
NewChanShared(c, v) == <<0, v>>
NewChan(c, v) == <<c, v>>

\* ctx.Err()
ErrAlwaysDeadline(c) == IF ctxErr[c] = Nil THEN Nil ELSE DeadlineExceeded
Err(c) == ctxErr[c]

\* case <-ctx.Done() is ready once the context's done channel is closed
DoneNever(c) == FALSE
Done(c) == ctxErr[c] # Nil

\* a send on a buffered channel proceeds while the buffer is not full
CanSend(ch) == Len(chans[ch]) < ChanCap
\* a receive proceeds when the buffer holds a value
CanRecv(ch) == Len(chans[ch]) > 0

\* the go statement of line 43 is not guarded by anything
LaunchIfNotDone(c) == ~Done(c)
Launch(c) == TRUE

\* the values of the three return statements
RetErrKeepResp(e) == [resp |-> "success", err |-> e]
RetErrGeneric(e) == [resp |-> ZeroResponse, err |-> "service failed"]
RetErr(e) == [resp |-> ZeroResponse, err |-> e]
RetResZero(r) == [resp |-> ZeroResponse, err |-> Nil]
RetRes(r) == [resp |-> r, err |-> Nil]
RetCtxNoErr(c) == [resp |-> ZeroResponse, err |-> Nil]
RetCtx(c) == [resp |-> ZeroResponse, err |-> Err(c)]

\* the zero value of the Recorder struct and of TestService
ZeroRecorder ==
    [Request |-> ZeroRequest, CtxCancelled |-> FALSE,
     CtxDeadlineExceeded |-> FALSE, CtxErr |-> Nil]
ZeroTestService ==
    [Res |-> ZeroResponse, DelayReponse |-> 0, Err |-> Nil, Recorder |-> ZeroRecorder]
\* the struct literals of the callers: any Res, DelayReponse and Err, and the
\* Recorder left at its zero value
TestServices ==
    [Res : Responses, DelayReponse : 0..MaxDelay, Err : {Nil} \cup WorkErrors,
     Recorder : {ZeroRecorder}]

\* no call on the TestService has been made
TestCallsIdle ==
    /\ tPc = [k \in TCalls |-> "idle"]
    /\ req = ZeroRequest
    /\ ctxIn = Nil
    /\ tCtxErr = Nil
    /\ sleeperPc = [k \in TCalls |-> "none"]
    /\ remaining = [k \in TCalls |-> 0]
    /\ doneCh = [k \in TCalls |-> <<>>]
    /\ tRet = [k \in TCalls |-> NoRet]

Init ==
    /\ callerPc = [c \in Calls |-> "idle"]
    /\ workerPc = [c \in Calls |-> "none"]
    /\ resCh = [c \in Calls |-> NoChan]
    /\ errCh = [c \in Calls |-> NoChan]
    /\ chans = << >>
    /\ ctxErr = [c \in Calls |-> Nil]
    /\ workRet = [c \in Calls |-> NoRet]
    /\ ret = [c \in Calls |-> NoRet]
    /\ launches = [c \in Calls |-> 0]
    /\ t = ZeroTestService
    /\ TestCallsIdle

\* ---- the context of call c (context.WithTimeout of the callers) ----

\* the cancel function is called; the first reason sticks
Cancel(c) ==
    /\ ctxErr[c] = Nil
    /\ ctxErr' = [ctxErr EXCEPT ![c] = Canceled]
    /\ UNCHANGED <<callerPc, workerPc, resCh, errCh, chans, workRet, ret, launches>>
    /\ UNCHANGED tvars

\* the deadline elapses
Deadline(c) ==
    /\ ctxErr[c] = Nil
    /\ ctxErr' = [ctxErr EXCEPT ![c] = DeadlineExceeded]
    /\ UNCHANGED <<callerPc, workerPc, resCh, errCh, chans, workRet, ret, launches>>
    /\ UNCHANGED tvars

\* ---- Service.Serve, the caller's side ----

\* lines 36-54: make resCh, make errCh, start the goroutine, reach the select
Serve(c) ==
    /\ callerPc[c] = "idle"
    /\ LET r == NewChan(c, "resCh")
           e == NewChan(c, "errCh")
       IN  /\ resCh' = [resCh EXCEPT ![c] = r]
           /\ errCh' = [errCh EXCEPT ![c] = e]
           /\ chans' = (r :> <<>>) @@ (e :> <<>>) @@ chans
    /\ IF Launch(c)
          THEN /\ workerPc' = [workerPc EXCEPT ![c] = "work"]
               /\ launches' = [launches EXCEPT ![c] = @ + 1]
          ELSE UNCHANGED <<workerPc, launches>>
    /\ callerPc' = [callerPc EXCEPT ![c] = "select"]
    /\ UNCHANGED <<ctxErr, workRet, ret>>
    /\ UNCHANGED tvars

\* line 58-59: case err := <-errCh: return Response{}, err
RecvErr(c) ==
    /\ callerPc[c] = "select"
    /\ CanRecv(errCh[c])
    /\ ret' = [ret EXCEPT ![c] = RetErr(Head(chans[errCh[c]]))]
    /\ chans' = [chans EXCEPT ![errCh[c]] = Tail(@)]
    /\ callerPc' = [callerPc EXCEPT ![c] = "ret_err"]
    /\ UNCHANGED <<workerPc, resCh, errCh, ctxErr, workRet, launches>>
    /\ UNCHANGED tvars

\* line 60-61: case res := <-resCh: return res, nil
RecvResUnlessDone(c) ==
    /\ callerPc[c] = "select"
    /\ ~Done(c)
    /\ CanRecv(resCh[c])
    /\ ret' = [ret EXCEPT ![c] = RetRes(Head(chans[resCh[c]]))]
    /\ chans' = [chans EXCEPT ![resCh[c]] = Tail(@)]
    /\ callerPc' = [callerPc EXCEPT ![c] = "ret_res"]
    /\ UNCHANGED <<workerPc, resCh, errCh, ctxErr, workRet, launches>>
    /\ UNCHANGED tvars

RecvRes(c) ==
    /\ callerPc[c] = "select"
    /\ CanRecv(resCh[c])
    /\ ret' = [ret EXCEPT ![c] = RetRes(Head(chans[resCh[c]]))]
    /\ chans' = [chans EXCEPT ![resCh[c]] = Tail(@)]
    /\ callerPc' = [callerPc EXCEPT ![c] = "ret_res"]
    /\ UNCHANGED <<workerPc, resCh, errCh, ctxErr, workRet, launches>>
    /\ UNCHANGED tvars

\* line 62-63: case <-ctx.Done(): return Response{}, ctx.Err()
RecvDoneStopsWorker(c) ==
    /\ callerPc[c] = "select"
    /\ Done(c)
    /\ ret' = [ret EXCEPT ![c] = RetCtx(c)]
    /\ callerPc' = [callerPc EXCEPT ![c] = "ret_ctx"]
    /\ workerPc' = [workerPc EXCEPT ![c] = "done"]
    /\ UNCHANGED <<resCh, errCh, chans, ctxErr, workRet, launches>>
    /\ UNCHANGED tvars

RecvDone(c) ==
    /\ callerPc[c] = "select"
    /\ Done(c)
    /\ ret' = [ret EXCEPT ![c] = RetCtx(c)]
    /\ callerPc' = [callerPc EXCEPT ![c] = "ret_ctx"]
    /\ UNCHANGED <<workerPc, resCh, errCh, chans, ctxErr, workRet, launches>>
    /\ UNCHANGED tvars

\* ---- the goroutine of lines 43-54 ----

\* line 46: s.work() returns
WorkReturn(c) ==
    /\ workerPc[c] = "work"
    /\ \E o \in WorkOutcomes :
        /\ workRet' = [workRet EXCEPT ![c] = o]
        /\ workerPc' = [workerPc EXCEPT ![c] =
                            IF o.err # Nil THEN "send_err" ELSE "send_res"]
    /\ UNCHANGED <<callerPc, resCh, errCh, chans, ctxErr, ret, launches>>
    /\ UNCHANGED tvars

\* lines 48-49: errCh <- err; return
SendErrFallThrough(c) ==
    /\ workerPc[c] = "send_err"
    /\ CanSend(errCh[c])
    /\ chans' = [chans EXCEPT ![errCh[c]] = Append(@, workRet[c].err)]
    /\ workerPc' = [workerPc EXCEPT ![c] = "send_res"]
    /\ UNCHANGED <<callerPc, resCh, errCh, ctxErr, workRet, ret, launches>>
    /\ UNCHANGED tvars

SendErr(c) ==
    /\ workerPc[c] = "send_err"
    /\ CanSend(errCh[c])
    /\ chans' = [chans EXCEPT ![errCh[c]] = Append(@, workRet[c].err)]
    /\ workerPc' = [workerPc EXCEPT ![c] = "done"]
    /\ UNCHANGED <<callerPc, resCh, errCh, ctxErr, workRet, ret, launches>>
    /\ UNCHANGED tvars

\* line 53: resCh <- resp
SendRes(c) ==
    /\ workerPc[c] = "send_res"
    /\ CanSend(resCh[c])
    /\ chans' = [chans EXCEPT ![resCh[c]] = Append(@, workRet[c].resp)]
    /\ workerPc' = [workerPc EXCEPT ![c] = "done"]
    /\ UNCHANGED <<callerPc, resCh, errCh, ctxErr, workRet, ret, launches>>
    /\ UNCHANGED tvars

Caller(c) == Serve(c) \/ RecvErr(c) \/ RecvRes(c) \/ RecvDone(c)
Worker(c) == WorkReturn(c) \/ SendErr(c) \/ SendRes(c)

Next ==
    \/ \E c \in Calls : Cancel(c)
    \/ \E c \in Calls : Deadline(c)
    \/ \E c \in Calls : Serve(c)
    \/ \E c \in Calls : RecvErr(c)
    \/ \E c \in Calls : RecvRes(c)
    \/ \E c \in Calls : RecvDone(c)
    \/ \E c \in Calls : WorkReturn(c)
    \/ \E c \in Calls : SendErr(c)
    \/ \E c \in Calls : SendRes(c)

Spec == Init /\ [][Next]_vars

\* The Go scheduler runs every runnable goroutine: a ready select case is
\* eventually taken and a send that can proceed eventually does.  Nothing
\* obliges the work function to return, a context to fire or a caller to
\* call Serve.
Fairness ==
    \A c \in Calls :
        /\ WF_vars(RecvErr(c) \/ RecvRes(c) \/ RecvDone(c))
        /\ WF_vars(SendErr(c) \/ SendRes(c))

FairSpec == Spec /\ Fairness

TypeOK ==
    /\ callerPc \in [Calls -> {"idle", "select", "ret_err", "ret_res", "ret_ctx"}]
    /\ workerPc \in [Calls -> {"none", "work", "send_err", "send_res", "done"}]
    /\ ctxErr \in [Calls -> {Nil} \cup CtxErrors]
    /\ \A c \in Calls : workRet[c] \in WorkOutcomes \cup {NoRet}
    /\ \A c \in Calls : launches[c] \in 0..1

\* ---- TestService.Serve (example/test/main.go lines 88-111) ----

\* make(chan bool, 1): capacity of the done channel
DoneCapUnbuffered == 0
DoneCap == 1

\* line 109: return t.Res, t.Err
RetDoneZero == [resp |-> ZeroResponse, err |-> t.Err]
RetDone == [resp |-> t.Res, err |-> t.Err]

\* lines 101-106: what the signal branch writes into the Recorder
RecordCtx(r, e) ==
    [r EXCEPT !.CtxErr = e,
              !.CtxCancelled = IF e = Canceled THEN TRUE ELSE @,
              !.CtxDeadlineExceeded =
                    IF e # Canceled /\ e = DeadlineExceeded THEN TRUE ELSE @]

TReturned(k) == tPc[k] \in {"ret_ctx", "ret_done"}

TestInit ==
    /\ callerPc = [c \in Calls |-> "idle"]
    /\ workerPc = [c \in Calls |-> "none"]
    /\ resCh = [c \in Calls |-> NoChan]
    /\ errCh = [c \in Calls |-> NoChan]
    /\ chans = << >>
    /\ ctxErr = [c \in Calls |-> Nil]
    /\ workRet = [c \in Calls |-> NoRet]
    /\ ret = [c \in Calls |-> NoRet]
    /\ launches = [c \in Calls |-> 0]
    /\ t \in TestServices
    /\ TestCallsIdle

\* lines 88-97: record the request, make done, start the delay goroutine and
\* reach the select.  The calls on t follow each other; the ctx passed may
\* have fired already.
TServe(k) ==
    /\ tPc[k] = "idle"
    /\ \A j \in 1..(k - 1) : TReturned(j)
    /\ \E q \in Requests, e \in {Nil} \cup CtxErrors :
        /\ req' = q
        /\ ctxIn' = e
        /\ tCtxErr' = e
        /\ t' = [t EXCEPT !.Recorder.Request = q]
    /\ doneCh' = [doneCh EXCEPT ![k] = <<>>]
    /\ sleeperPc' = [sleeperPc EXCEPT ![k] = "sleep"]
    /\ remaining' = [remaining EXCEPT ![k] = t.DelayReponse]
    /\ tPc' = [tPc EXCEPT ![k] = "select"]
    /\ UNCHANGED tRet
    /\ UNCHANGED svars

\* the cancel function of the ctx of the latest call is called
TCancel ==
    /\ tPc[1] # "idle"
    /\ tCtxErr = Nil
    /\ tCtxErr' = Canceled
    /\ UNCHANGED <<t, tPc, req, ctxIn, sleeperPc, remaining, doneCh, tRet>>
    /\ UNCHANGED svars

\* the deadline of the ctx of the latest call elapses
TDeadline ==
    /\ tPc[1] # "idle"
    /\ tCtxErr = Nil
    /\ tCtxErr' = DeadlineExceeded
    /\ UNCHANGED <<t, tPc, req, ctxIn, sleeperPc, remaining, doneCh, tRet>>
    /\ UNCHANGED svars

\* lines 100-107: case <-ctx.Done()
TRecvCtx(k) ==
    /\ tPc[k] = "select"
    /\ tCtxErr # Nil
    /\ t' = [t EXCEPT !.Recorder = RecordCtx(@, tCtxErr)]
    /\ tRet' = [tRet EXCEPT ![k] = [resp |-> ZeroResponse, err |-> tCtxErr]]
    /\ tPc' = [tPc EXCEPT ![k] = "ret_ctx"]
    /\ UNCHANGED <<req, ctxIn, tCtxErr, sleeperPc, remaining, doneCh>>
    /\ UNCHANGED svars

\* lines 108-109: case <-done
TRecvDoneResets(k) ==
    /\ tPc[k] = "select"
    /\ Len(doneCh[k]) > 0
    /\ doneCh' = [doneCh EXCEPT ![k] = Tail(@)]
    /\ tRet' = [tRet EXCEPT ![k] = RetDone]
    /\ tPc' = [tPc EXCEPT ![k] = "ret_done"]
    /\ t' = [t EXCEPT !.Recorder = ZeroRecorder]
    /\ UNCHANGED <<req, ctxIn, tCtxErr, sleeperPc, remaining>>
    /\ UNCHANGED svars

TRecvDone(k) ==
    /\ tPc[k] = "select"
    /\ Len(doneCh[k]) > 0
    /\ doneCh' = [doneCh EXCEPT ![k] = Tail(@)]
    /\ tRet' = [tRet EXCEPT ![k] = RetDone]
    /\ tPc' = [tPc EXCEPT ![k] = "ret_done"]
    /\ UNCHANGED <<t, req, ctxIn, tCtxErr, sleeperPc, remaining>>
    /\ UNCHANGED svars

\* line 95: time passes for the sleeping goroutine
TTick(k) ==
    /\ sleeperPc[k] = "sleep"
    /\ remaining[k] > 0
    /\ remaining' = [remaining EXCEPT ![k] = @ - 1]
    /\ UNCHANGED <<t, tPc, req, ctxIn, tCtxErr, sleeperPc, doneCh, tRet>>
    /\ UNCHANGED svars

\* line 95: time.Sleep returns once the delay is over
TWake(k) ==
    /\ sleeperPc[k] = "sleep"
    /\ remaining[k] = 0
    /\ sleeperPc' = [sleeperPc EXCEPT ![k] = "send"]
    /\ UNCHANGED <<t, tPc, req, ctxIn, tCtxErr, remaining, doneCh, tRet>>
    /\ UNCHANGED svars

\* line 96: done <- true, then the goroutine ends
TSend(k) ==
    /\ sleeperPc[k] = "send"
    /\ Len(doneCh[k]) < DoneCap
    /\ doneCh' = [doneCh EXCEPT ![k] = Append(@, TRUE)]
    /\ sleeperPc' = [sleeperPc EXCEPT ![k] = "exit"]
    /\ UNCHANGED <<t, tPc, req, ctxIn, tCtxErr, remaining, tRet>>
    /\ UNCHANGED svars

TestNext ==
    \/ \E k \in TCalls : TServe(k)
    \/ TCancel
    \/ TDeadline
    \/ \E k \in TCalls : TRecvCtx(k)
    \/ \E k \in TCalls : TRecvDone(k)
    \/ \E k \in TCalls : TTick(k)
    \/ \E k \in TCalls : TWake(k)
    \/ \E k \in TCalls : TSend(k)

TestSpec == TestInit /\ [][TestNext]_vars

\* Time passes, a sleep that is over returns, a send that can proceed does
\* and a ready select case is taken.  Nothing obliges a ctx to fire or a
\* caller to call again.
TestFairness ==
    \A k \in TCalls :
        /\ WF_vars(TTick(k) \/ TWake(k) \/ TSend(k))
        /\ WF_vars(TRecvCtx(k) \/ TRecvDone(k))

FairTestSpec == TestSpec /\ TestFairness

TestTypeOK ==
    /\ t \in [Res : Responses, DelayReponse : 0..MaxDelay, Err : {Nil} \cup WorkErrors,
              Recorder : [Request : Requests \cup {ZeroRequest}, CtxCancelled : BOOLEAN,
                          CtxDeadlineExceeded : BOOLEAN, CtxErr : {Nil} \cup CtxErrors]]
    /\ tPc \in [TCalls -> {"idle", "select", "ret_ctx", "ret_done"}]
    /\ sleeperPc \in [TCalls -> {"none", "sleep", "send", "exit"}]
    /\ remaining \in [TCalls -> 0..MaxDelay]
    /\ \A k \in TCalls : Len(doneCh[k]) <= 1

\* ---- vocabulary of the properties ----

Returned(c) == callerPc[c] \in {"ret_err", "ret_res", "ret_ctx"}
WorkReturned(c) == workerPc[c] \in {"send_err", "send_res", "done"}
Fired(c) == ctxErr[c] # Nil
Resolves(c) == callerPc[c] = "select" /\ callerPc'[c] # "select"
\* the worker's outcome lies unread in the channel it was sent on
Deposited(c) ==
    IF workRet[c].err # Nil
        THEN chans[errCh[c]] = <<workRet[c].err>>
        ELSE chans[resCh[c]] = <<workRet[c].resp>>

\* C1 (no leak): once Serve has returned the cancellation outcome, its worker
\* is never blocked at its send, and as soon as its work function has
\* returned it goes on to send and terminate, the value staying unread in the
\* channel.
C1_NoLeak ==
    /\ [](\A c \in Calls :
            /\ callerPc[c] = "ret_ctx" /\ workerPc[c] = "send_err"
                    => Len(chans[errCh[c]]) < 1
            /\ callerPc[c] = "ret_ctx" /\ workerPc[c] = "send_res"
                    => Len(chans[resCh[c]]) < 1
            /\ callerPc[c] = "ret_ctx" /\ workerPc[c] = "done" => Deposited(c))
    /\ \A c \in Calls :
            (callerPc[c] = "ret_ctx" /\ WorkReturned(c))
                ~> (workerPc[c] = "done" /\ Deposited(c))

C1_Witness ==
    \E c \in Calls :
        /\ callerPc[c] = "ret_ctx"
        /\ workerPc[c] = "done"
        /\ Deposited(c)

\* C2 (success): when the select of a call resolves while its signal has not
\* fired and its work function has returned (R, nil), Serve returns (R, nil).
C2_Success ==
    [][\A c \in Calls :
        (Resolves(c) /\ ~Fired(c) /\ WorkReturned(c) /\ workRet[c].err = Nil)
            => ret'[c] = [resp |-> workRet[c].resp, err |-> Nil]]_vars

C2_Witness ==
    \E c \in Calls :
        /\ callerPc[c] = "ret_res"
        /\ ~Fired(c)
        /\ workRet[c] = [resp |-> "success", err |-> Nil]
        /\ ret[c] = [resp |-> "success", err |-> Nil]

\* C3 (propagated failure): when the select of a call resolves while its
\* signal has not fired and its work function has returned a non-nil error E,
\* Serve returns (empty Response, E).
C3_Failure ==
    [][\A c \in Calls :
        (Resolves(c) /\ ~Fired(c) /\ WorkReturned(c) /\ workRet[c].err # Nil)
            => ret'[c] = [resp |-> ZeroResponse, err |-> workRet[c].err]]_vars

C3_Witness ==
    \E c \in Calls :
        /\ callerPc[c] = "ret_err"
        /\ ~Fired(c)
        /\ workRet[c].err = "error"
        /\ ret[c] = [resp |-> ZeroResponse, err |-> "error"]

C5_CallerLiveness ==
    /\ [](\A c \in Calls : Returned(c) => WorkReturned(c) \/ Fired(c))
    /\ \A c \in Calls :
            (callerPc[c] = "select" /\ (WorkReturned(c) \/ Fired(c)))
                ~> Returned(c)

C5_Witness ==
    \E c, d \in Calls :
        /\ callerPc[c] = "ret_ctx" /\ workerPc[c] = "work"
        /\ Returned(d) /\ ~Fired(d) /\ WorkReturned(d)

\* the state machine of section 4.1
State(c) ==
    CASE callerPc[c] = "idle" -> "NOT_CALLED"
      [] callerPc[c] = "select" -> "STARTED"
      [] callerPc[c] = "ret_res" -> "RESOLVED_OK"
      [] callerPc[c] = "ret_err" -> "RESOLVED_ERR"
      [] callerPc[c] = "ret_ctx" -> "RESOLVED_CANCELLED"
Resolved == {"RESOLVED_OK", "RESOLVED_ERR", "RESOLVED_CANCELLED"}
OutcomeOK(r) == r.err = Nil /\ r.resp \in Responses
OutcomeErr(r) == r.err \in WorkErrors /\ r.resp = ZeroResponse
OutcomeCancelled(r) == r.err \in CtxErrors /\ r.resp = ZeroResponse

\* C6 (per-call state machine): a call moves from STARTED to one of the three
\* resolved states only; the value it returned has the shape of exactly that
\* outcome; once resolved, neither its state nor the value returned changes.
C6_StateMachine ==
    /\ [](\A c \in Calls :
            /\ ret[c] # NoRet <=> State(c) \in Resolved
            /\ State(c) = "RESOLVED_OK" =>
                OutcomeOK(ret[c]) /\ ~OutcomeErr(ret[c]) /\ ~OutcomeCancelled(ret[c])
            /\ State(c) = "RESOLVED_ERR" =>
                OutcomeErr(ret[c]) /\ ~OutcomeOK(ret[c]) /\ ~OutcomeCancelled(ret[c])
            /\ State(c) = "RESOLVED_CANCELLED" =>
                OutcomeCancelled(ret[c]) /\ ~OutcomeOK(ret[c]) /\ ~OutcomeErr(ret[c]))
    /\ [][\A c \in Calls :
            /\ State(c) = "STARTED" => State(c)' \in Resolved \cup {"STARTED"}
            /\ State(c) \in Resolved => State(c)' = State(c) /\ ret'[c] = ret[c]]_vars

\* a call is resolved as cancelled, then its abandoned work function returns;
\* another is resolved by its work and its signal fires afterwards
C6_Witness ==
    \E c, d \in Calls :
        /\ State(c) = "RESOLVED_CANCELLED" /\ workerPc[c] = "done"
        /\ State(d) \in {"RESOLVED_OK", "RESOLVED_ERR"} /\ Fired(d)

\* C7 (unconditional single launch): a call that has entered Serve has
\* started its work function exactly once, also when its signal had fired
\* before the call; a call not yet made has started none.
C7_SingleLaunch ==
    /\ [](\A c \in Calls :
            /\ launches[c] <= 1
            /\ callerPc[c] = "idle" => launches[c] = 0 /\ workerPc[c] = "none"
            /\ callerPc[c] # "idle" => launches[c] = 1 /\ workerPc[c] # "none")
    /\ [][\A c \in Calls :
            (callerPc[c] = "idle" /\ callerPc'[c] # "idle")
                => launches'[c] = 1 /\ workerPc'[c] = "work"]_vars

C7_Witness ==
    \E c \in Calls :
        /\ Fired(c)
        /\ callerPc[c] = "select"
        /\ workerPc[c] = "work"
        /\ launches[c] = 1

\* C8 (cancellation touches only the caller's wait): the firing of a signal
\* and the return of Serve on it change nothing of any worker or channel; the
\* abandoned work function can still return and its worker can still send.
C8_CancelFrame ==
    /\ [][\A c \in Calls :
            (ctxErr'[c] # ctxErr[c] \/ (Resolves(c) /\ callerPc'[c] = "ret_ctx"))
                => /\ workerPc' = workerPc
                   /\ workRet' = workRet
                   /\ chans' = chans
                   /\ launches' = launches]_vars
    /\ [](\A c \in Calls :
            /\ callerPc[c] = "ret_ctx" /\ workerPc[c] = "work"
                    => ENABLED WorkReturn(c)
            /\ callerPc[c] = "ret_ctx" /\ workerPc[c] \in {"send_err", "send_res"}
                    => ENABLED (SendErr(c) \/ SendRes(c)))

C8_Witness ==
    \E c \in Calls :
        /\ callerPc[c] = "ret_ctx"
        /\ workerPc[c] \in {"send_err", "send_res"}
        /\ chans[resCh[c]] = <<>> /\ chans[errCh[c]] = <<>>

\* C9 (empty Response on every non-success path): a returned non-nil error
\* comes with the zero Response, also when the work function returned a
\* non-empty Response with its error.
C9_EmptyOnError ==
    \A c \in Calls :
        Returned(c) /\ ret[c].err # Nil => ret[c].resp = ZeroResponse

C9_Witness ==
    \E c \in Calls :
        /\ callerPc[c] = "ret_err"
        /\ workRet[c].resp # ZeroResponse /\ workRet[c].err # Nil
        /\ ret[c].resp = ZeroResponse

\* what a call can return given its own work invocation and its own signal
OwnOutcomes(c) ==
    (IF Fired(c) THEN {[resp |-> ZeroResponse, err |-> ctxErr[c]]} ELSE {})
    \cup (IF ~WorkReturned(c) THEN {}
          ELSE IF workRet[c].err # Nil
                  THEN {[resp |-> ZeroResponse, err |-> workRet[c].err]}
                  ELSE {[resp |-> workRet[c].resp, err |-> Nil]})
\* the state of call c: its locals, its signal and the channels it made
CallState(c) ==
    <<callerPc[c], workerPc[c], resCh[c], errCh[c], ctxErr[c], workRet[c],
      ret[c], launches[c],
      IF callerPc[c] = "idle" THEN <<>> ELSE <<chans[resCh[c]], chans[errCh[c]]>> >>

\* C10 (calls are independent): started calls hold pairwise distinct
\* channels; a channel of a call holds nothing but what that call's worker
\* sent; a call returns only an outcome of its own work invocation or its own
\* signal; a step of one call (or of its signal) changes nothing of another.
C10_Independent ==
    /\ [](\A c, d \in Calls :
            c # d /\ callerPc[c] # "idle" /\ callerPc[d] # "idle"
                => {resCh[c], errCh[c]} \cap {resCh[d], errCh[d]} = {})
    /\ [](\A c \in Calls :
            callerPc[c] # "idle" =>
                /\ resCh[c] # errCh[c]
                /\ \A i \in 1..Len(chans[resCh[c]]) :
                        WorkReturned(c) /\ chans[resCh[c]][i] = workRet[c].resp
                /\ \A i \in 1..Len(chans[errCh[c]]) :
                        WorkReturned(c) /\ chans[errCh[c]][i] = workRet[c].err)
    /\ [](\A c \in Calls : Returned(c) => ret[c] \in OwnOutcomes(c))
    /\ [][\A c \in Calls :
            (Caller(c) \/ Worker(c) \/ Cancel(c) \/ Deadline(c))
                => \A d \in Calls \ {c} : CallState(d)' = CallState(d)]_vars

\* both calls have run concurrently to different outcomes, one of them taking
\* its worker's deposit while the other's deposit lies unread
C10_Witness ==
    \E c, d \in Calls :
        /\ c # d
        /\ callerPc[c] = "ret_res" /\ ret[c].resp = "success"
        /\ callerPc[d] = "ret_ctx" /\ workerPc[d] = "done"
        /\ workRet[d].err # Nil /\ chans[errCh[d]] = <<workRet[d].err>>

\* the outcome of the call's work invocation as Serve hands it back
WorkOutcomeOf(c) ==
    IF workRet[c].err # Nil
        THEN [resp |-> ZeroResponse, err |-> workRet[c].err]
        ELSE [resp |-> workRet[c].resp, err |-> Nil]
\* the caller waits, its worker has deposited and its signal has fired
BothReady(c) ==
    /\ callerPc[c] = "select"
    /\ workerPc[c] = "done"
    /\ Fired(c)

\* C14 (no tie-break): with the deposit made and the signal fired before the
\* select resolves, both the work case and the ctx.Done() case can be taken
\* and the select returns the work outcome or the cancellation outcome,
\* nothing else; a cancellation outcome is returned only with the signal
\* fired, a work outcome only when the work function has returned it.
C14_NoTieBreak ==
    /\ [](\A c \in Calls :
            /\ BothReady(c) =>
                /\ ENABLED RecvDone(c)
                /\ ENABLED (RecvErr(c) \/ RecvRes(c))
            /\ callerPc[c] = "ret_ctx" => Fired(c)
            /\ callerPc[c] \in {"ret_res", "ret_err"} =>
                WorkReturned(c) /\ ret[c] = WorkOutcomeOf(c))
    /\ [][\A c \in Calls :
            (BothReady(c) /\ Resolves(c)) =>
                \/ callerPc'[c] = "ret_ctx"
                    /\ ret'[c] = [resp |-> ZeroResponse, err |-> ctxErr[c]]
                \/ callerPc'[c] \in {"ret_res", "ret_err"}
                    /\ ret'[c] = WorkOutcomeOf(c)]_vars

\* the tie went to the work outcome in one call and to the signal in another
C14_Witness ==
    \E c, d \in Calls :
        /\ callerPc[c] = "ret_res" /\ Fired(c) /\ ret[c] = WorkOutcomeOf(c)
        /\ callerPc[d] = "ret_ctx" /\ workerPc[d] = "done"
        /\ workRet[d].err = Nil /\ chans[resCh[d]] = <<workRet[d].resp>>

\* sends performed by the worker of call c: values lying in its channels and
\* the one its caller has received
Sends(c) ==
    Len(chans[resCh[c]]) + Len(chans[errCh[c]])
        + (IF callerPc[c] \in {"ret_res", "ret_err"} THEN 1 ELSE 0)

\* C15 (hand-off channel invariant): the worker of a call sends at most once
\* over both channels, no channel ever holds more than one value, the two
\* channels are never both non-empty, and a worker at a send statement always
\* finds room in the channel it sends on.
C15_HandOff ==
    \A c \in Calls :
        callerPc[c] # "idle" =>
            /\ Sends(c) <= 1
            /\ workerPc[c] \in {"work", "send_err", "send_res"} => Sends(c) = 0
            /\ Len(chans[resCh[c]]) <= 1
            /\ Len(chans[errCh[c]]) <= 1
            /\ ~(chans[resCh[c]] # <<>> /\ chans[errCh[c]] # <<>>)
            /\ workerPc[c] = "send_err" => Len(chans[errCh[c]]) < 1
            /\ workerPc[c] = "send_res" => Len(chans[resCh[c]]) < 1

C15_Witness ==
    \E c, d \in Calls :
        /\ workerPc[c] = "done" /\ callerPc[c] = "select"
        /\ chans[errCh[c]] # <<>> /\ chans[resCh[c]] = <<>>
        /\ workerPc[d] = "done" /\ callerPc[d] = "ret_ctx"
        /\ chans[resCh[d]] # <<>> /\ chans[errCh[d]] = <<>>

\* ---- the test double ----

\* the TestService is fresh: its first call is the only one made
FirstCallOnly == \A k \in TCalls \ {1} : tPc[k] = "idle"
\* the latest call made on the TestService
Latest(k) == tPc[k] # "idle" /\ \A j \in TCalls : j > k => tPc[j] = "idle"

\* C11 (signal-reason fidelity): the first call on a fresh TestService, made
\* with a ctx whose deadline had already expired, ends with
\* CtxDeadlineExceeded set and CtxCancelled clear; made with a ctx already
\* cancelled, it ends with CtxCancelled set and CtxDeadlineExceeded clear.
C11_ReasonFidelity ==
    (TReturned(1) /\ FirstCallOnly) =>
        /\ ctxIn = DeadlineExceeded =>
            t.Recorder.CtxDeadlineExceeded /\ ~t.Recorder.CtxCancelled
        /\ ctxIn = Canceled =>
            t.Recorder.CtxCancelled /\ ~t.Recorder.CtxDeadlineExceeded

\* what the contract of Service.Serve allows a Serve configured with Res and
\* Err to return
ContractPairs ==
    (IF t.Err = Nil THEN {[resp |-> t.Res, err |-> Nil]}
                    ELSE {[resp |-> ZeroResponse, err |-> t.Err]})
    \cup {[resp |-> ZeroResponse, err |-> e] : e \in CtxErrors}

\* C12 (same contract as the executor): every pair a call on the TestService
\* returns is (Res, nil), (empty Response, Err) or (empty Response, the
\* signal's reason); the Response is empty whenever the error is non-nil.
C12_SameContract ==
    \A k \in TCalls :
        TReturned(k) =>
            /\ tRet[k] \in ContractPairs
            /\ tRet[k].err # Nil => tRet[k].resp = ZeroResponse

\* C13 (test double without a signal): a call whose select resolves with the
\* signal not fired returns (Res, Err), after the delay has elapsed, and the
\* step changes nothing of t; entering Serve writes Recorder.Request and no
\* other field; so after the first call on a fresh TestService, with the
\* signal still not fired, the Recorder is (request passed, false, false, nil).
C13_NoSignal ==
    /\ [][\A k \in TCalls :
            (tPc[k] = "select" /\ tPc'[k] # "select" /\ tCtxErr = Nil) =>
                /\ tPc'[k] = "ret_done"
                /\ sleeperPc[k] = "exit" /\ remaining[k] = 0
                /\ tRet'[k] = [resp |-> t.Res, err |-> t.Err]
                /\ t' = t]_vars
    /\ [][\A k \in TCalls :
            (tPc[k] = "idle" /\ tPc'[k] # "idle") =>
                t' = [t EXCEPT !.Recorder.Request = req']]_vars
    /\ []((tPc[1] = "ret_done" /\ FirstCallOnly /\ tCtxErr = Nil) =>
            t.Recorder = [Request |-> req, CtxCancelled |-> FALSE,
                          CtxDeadlineExceeded |-> FALSE, CtxErr |-> Nil])

C13_Witness ==
    /\ tPc[1] = "ret_done" /\ FirstCallOnly
    /\ tCtxErr = Nil
    /\ t.DelayReponse > 0
    /\ req # ZeroRequest /\ t.Recorder.Request = req
    /\ tRet[1] = [resp |-> t.Res, err |-> t.Err]

\* C16 (Recorder reflects the latest call): once the latest of the successive
\* calls has returned, CtxErr, CtxCancelled and CtxDeadlineExceeded are
\* nil/false/false if it returned through the delay path and tell its
\* signal's reason if it returned through the signal branch; the two flags
\* are never both set.
C16_RecorderLatest ==
    /\ ~(t.Recorder.CtxCancelled /\ t.Recorder.CtxDeadlineExceeded)
    /\ \A k \in TCalls :
        (Latest(k) /\ TReturned(k)) =>
            /\ tPc[k] = "ret_done" =>
                /\ t.Recorder.CtxErr = Nil
                /\ ~t.Recorder.CtxCancelled
                /\ ~t.Recorder.CtxDeadlineExceeded
            /\ tPc[k] = "ret_ctx" =>
                /\ t.Recorder.CtxErr = tRet[k].err
                /\ t.Recorder.CtxCancelled <=> (tRet[k].err = Canceled)
                /\ t.Recorder.CtxDeadlineExceeded <=> (tRet[k].err = DeadlineExceeded)

\* sends performed by the delay goroutine of call k
DoneSends(k) == Len(doneCh[k]) + (IF tPc[k] = "ret_done" THEN 1 ELSE 0)

\* C17 (the test double does not leak): the delay goroutine of a call sends
\* at most once; after the call has returned through the signal branch the
\* goroutine is never blocked at its send, and it goes on to send and end,
\* the value staying unread in done.
C17_TestNoLeak ==
    /\ [](\A k \in TCalls :
            /\ DoneSends(k) <= 1
            /\ tPc[k] = "ret_ctx" /\ sleeperPc[k] = "send" => Len(doneCh[k]) < 1
            /\ tPc[k] = "ret_ctx" /\ sleeperPc[k] = "exit" => doneCh[k] = <<TRUE>>)
    /\ \A k \in TCalls :
            (tPc[k] = "ret_ctx") ~> (sleeperPc[k] = "exit" /\ doneCh[k] = <<TRUE>>)

C17_Witness ==
    \E k \in TCalls :
        /\ tPc[k] = "ret_ctx"
        /\ t.DelayReponse > 0
        /\ sleeperPc[k] = "exit"
        /\ doneCh[k] = <<TRUE>>
====
